---- MODULE Spec2Model ----
(***************************************************************************)
(* Model of the Franco-Arabic auto-translator bots (src/bot.py and         *)
(* src/franco_arabic_bot.py).                                              *)
(*                                                                         *)
(* A Python str is a sequence of Unicode code points (natural numbers):    *)
(* <<115, 104>> is "sh", 1588 is U+0634 ARABIC LETTER SHEEN, 304 is U+0130 *)
(* LATIN CAPITAL LETTER I WITH DOT ABOVE, 775 is U+0307 COMBINING DOT      *)
(* ABOVE.                                                                  *)
(***************************************************************************)
EXTENDS Integers, Sequences, FiniteSets, TLC

VARIABLES
    mode,        \* which part of the program this behaviour exercises
    pc,          \* position of the running function / handler
    original,    \* first str argument (raw text; message.content; text)
    translated,  \* second str argument of should_send_translation
    arabic,      \* value returned by franco_to_arabic
    norm1,       \* normalize_text(original)
    norm2,       \* normalize_text applied to norm1
    send,        \* value returned by should_send_translation
    variant,     \* which file's bot runs: "bot" or "franco_arabic_bot"
    handler,     \* "on_message" or "translate_command"
    authorBot,   \* message.author.bot
    trKind,      \* translator.translate: "not_called", "raised" or "returned"
    trArg,       \* the argument translator.translate was called with
    trValue,     \* the value translator.translate returned
    calls,       \* number of calls of translator.translate
    sent,        \* the calls of channel.send / ctx.send, in order
    commands,    \* number of calls of bot.process_commands
    exc,         \* the exception that left the handler, or "none"
    terminal     \* the branch the handler took after translate_text

botVars == <<variant, handler, authorBot, trKind, trArg, trValue, calls, sent,
             commands, exc, terminal>>

vars == <<mode, pc, original, translated, arabic, norm1, norm2, send, variant,
          handler, authorBot, trKind, trArg, trValue, calls, sent, commands,
          exc, terminal>>

\* Python's None, and the value of a name not yet assigned: two values that
\* are no str (no str holds a negative code point).
NoneVal == <<-1>>
Unset == <<-2>>

----------------------------------------------------------------------------
(* Bounds of the input sets.                                               *)
MaxFrancoLen == 3
MaxNormLen == 2

\* Strings over alphabet A of length at most n.
RECURSIVE StringsUpTo(_, _)
StringsUpTo(A, n) ==
    IF n = 0 THEN {<<>>}
    ELSE LET shorter == StringsUpTo(A, n - 1)
         IN shorter \cup {Append(s, c) : s \in shorter, c \in A}

----------------------------------------------------------------------------
(* src/bot.py: FRANCO_MAP and franco_to_arabic                             *)

\* The dict literal in insertion order, as <<key, value>> pairs.
FRANCO_MAP == <<
    <<<<50>>, <<1569>>>>, <<<<51>>, <<1593>>>>, <<<<52>>, <<1588>>>>,
    <<<<53>>, <<1582>>>>, <<<<54>>, <<1591>>>>, <<<<55>>, <<1581>>>>,
    <<<<56>>, <<1602>>>>, <<<<57>>, <<1589>>>>, <<<<97>>, <<1575>>>>,
    <<<<98>>, <<1576>>>>, <<<<116>>, <<1578>>>>, <<<<116, 104>>, <<1579>>>>,
    <<<<106>>, <<1580>>>>, <<<<104>>, <<1607>>>>, <<<<107, 104>>, <<1582>>>>,
    <<<<100>>, <<1583>>>>, <<<<100, 104>>, <<1584>>>>, <<<<114>>, <<1585>>>>,
    <<<<122>>, <<1586>>>>, <<<<115>>, <<1587>>>>, <<<<115, 104>>, <<1588>>>>,
    <<<<7779>>, <<1589>>>>, <<<<7693>>, <<1590>>>>, <<<<7789>>, <<1591>>>>,
    <<<<7827>>, <<1592>>>>, <<<<703>>, <<1593>>>>, <<<<103, 104>>, <<1594>>>>,
    <<<<102>>, <<1601>>>>, <<<<113>>, <<1602>>>>, <<<<107>>, <<1603>>>>,
    <<<<108>>, <<1604>>>>, <<<<109>>, <<1605>>>>, <<<<110>>, <<1606>>>>,
    <<<<119>>, <<1608>>>>, <<<<121>>, <<1610>>>> >>

\* The list literal of the first loop: ['sh','kh','gh','th','dh'].
COMBOS == << <<115, 104>>, <<107, 104>>, <<103, 104>>, <<116, 104>>, <<100, 104>> >>

\* FRANCO_MAP.get(k, default)
FrancoGet(k, default) ==
    IF \E i \in 1..Len(FRANCO_MAP) : FRANCO_MAP[i][1] = k
    THEN FRANCO_MAP[CHOOSE i \in 1..Len(FRANCO_MAP) : FRANCO_MAP[i][1] = k][2]
    ELSE default

\* A replace that stops after the first occurrence (str.replace(k, v, 1)).
RECURSIVE ReplaceFirstOnly(_, _, _)
ReplaceFirstOnly(text, k, v) ==
    IF Len(text) < Len(k) THEN text
    ELSE IF SubSeq(text, 1, Len(k)) = k
         THEN v \o SubSeq(text, Len(k) + 1, Len(text))
         ELSE <<Head(text)>> \o ReplaceFirstOnly(Tail(text), k, v)

\* str.replace(k, v) for a non-empty k: every non-overlapping occurrence,
\* found left to right.
RECURSIVE Replace(_, _, _)
Replace(text, k, v) ==
    IF Len(text) < Len(k) THEN text
    ELSE IF SubSeq(text, 1, Len(k)) = k
         THEN v \o Replace(SubSeq(text, Len(k) + 1, Len(text)), k, v)
         ELSE <<Head(text)>> \o Replace(Tail(text), k, v)

\* for combo in combos: text = text.replace(combo, FRANCO_MAP.get(combo, combo))
RECURSIVE ComboLoop(_, _, _)
ComboLoop(text, combos, i) ==
    IF i > Len(combos) THEN text
    ELSE ComboLoop(Replace(text, combos[i], FrancoGet(combos[i], combos[i])),
                   combos, i + 1)

\* for k, v in items: text = text.replace(k, v)
RECURSIVE ItemLoop(_, _, _)
ItemLoop(text, items, i) ==
    IF i > Len(items) THEN text
    ELSE ItemLoop(Replace(text, items[i][1], items[i][2]), items, i + 1)

\* The body of franco_to_arabic over a given combo list and item order.
FrancoApply(text, combos, items) ==
    ItemLoop(ComboLoop(text, combos, 1), items, 1)

\* franco_to_arabic with the first loop left out.
FrancoWithoutComboLoop(text) == ItemLoop(text, FRANCO_MAP, 1)

franco_to_arabic(text) == FrancoApply(text, COMBOS, FRANCO_MAP)

----------------------------------------------------------------------------
(* normalize_text and should_send_translation (identical in both files)    *)

\* Code points that re's \w matches (str.isalnum() or "_"), among the code
\* points the model uses: ASCII digits and letters, "_", U+0130, the Arabic
\* letters U+0621..U+064A and the Latin letters of FRANCO_MAP's keys.
IsWord(c) ==
    \/ c \in 48..57
    \/ c \in 65..90
    \/ c = 95
    \/ c \in 97..122
    \/ c = 304
    \/ c \in 1569..1610
    \/ c \in {703, 7693, 7779, 7789, 7827}

\* The character class [\W_].
InClass(c) == ~IsWord(c) \/ c = 95

\* str.isspace() among the code points the model uses.
IsSpace(c) == c \in {9, 10, 11, 12, 13, 28, 29, 30, 31, 32, 133, 160}

RECURSIVE DropRun(_)
DropRun(s) ==
    IF s # <<>> /\ InClass(Head(s)) THEN DropRun(Tail(s)) ELSE s

\* _normalize_re.sub(" ", s): each maximal run of [\W_] becomes one space.
RECURSIVE RegexSub(_)
RegexSub(s) ==
    IF s = <<>> THEN <<>>
    ELSE IF InClass(Head(s)) THEN <<32>> \o RegexSub(DropRun(s))
    ELSE <<Head(s)>> \o RegexSub(Tail(s))

RECURSIVE LStrip(_)
LStrip(s) == IF s # <<>> /\ IsSpace(Head(s)) THEN LStrip(Tail(s)) ELSE s

RECURSIVE RStrip(_)
RStrip(s) ==
    IF s # <<>> /\ IsSpace(s[Len(s)]) THEN RStrip(SubSeq(s, 1, Len(s) - 1)) ELSE s

\* str.strip()
Strip(s) == RStrip(LStrip(s))

\* The lowercase mapping of one code point: ASCII capitals; U+0130 lowers to
\* the two code points U+0069 U+0307; everything else the model uses has no
\* lowercase mapping.
LowerChar(c) ==
    IF c \in 65..90 THEN <<c + 32>>
    ELSE IF c = 304 THEN <<105, 775>>
    ELSE <<c>>

\* str.lower()
RECURSIVE Lower(_)
Lower(s) == IF s = <<>> THEN <<>> ELSE LowerChar(Head(s)) \o Lower(Tail(s))

\* normalize_text with the .lower() call left out.
NormalizeWithoutLower(s) == Strip(RegexSub(s))

normalize_text(s) == Lower(Strip(RegexSub(s)))

should_send_translation(orig, trans) ==
    normalize_text(orig) # normalize_text(trans)

----------------------------------------------------------------------------
(* Input sets                                                               *)

\* s h k t g d S 3 o space U+0634
FrancoAlphabet == {115, 104, 107, 116, 103, 100, 83, 51, 111, 32, 1588}
FrancoInputs == StringsUpTo(FrancoAlphabet, MaxFrancoLen)

\* a A b ! _ U+0130 U+0307
NormAlphabet == {97, 65, 98, 33, 95, 304, 775}

\* The argument strings of the unit tests in franco_arabic_bot.py.
TestPairs == {
    << <<104, 101, 108, 108, 111>>, <<104, 101, 108, 108, 111>> >>,
    << <<72, 101, 108, 108, 111>>, <<104, 101, 108, 108, 111>> >>,
    << <<104, 101, 121, 33, 33, 33>>, <<104, 101, 121>> >>,
    << <<51, 111, 109, 114, 105>>, <<109, 121, 32, 108, 105, 102, 101>> >>,
    << <<55, 97, 98, 105, 98, 105>>, <<109, 121, 32, 100, 101, 97, 114>> >>,
    << <<97, 110, 97, 32, 107, 119, 97, 121, 101, 115>>,
       <<105, 32, 97, 109, 32, 102, 105, 110, 101>> >>,
    << <<72, 101, 108, 108, 111, 44, 32, 87, 111, 114, 108, 100, 33>>,
       <<104, 101, 108, 108, 111, 32, 119, 111, 114, 108, 100>> >>,
    << <<32, 32, 83, 65, 76, 65, 77, 95, 95, 65, 108, 97, 105, 107, 117, 109, 32, 32>>,
       <<115, 97, 108, 97, 109, 32, 97, 108, 97, 105, 107, 117, 109>> >> }

NormInputs == StringsUpTo(NormAlphabet, MaxNormLen)
NormPairs == (NormInputs \X NormInputs) \cup TestPairs

----------------------------------------------------------------------------
(* Specification SpecFranco: franco_to_arabic applied to one input          *)

\* No handler is running.
BotIdle ==
    /\ variant = "none"
    /\ handler = "none"
    /\ authorBot = FALSE
    /\ trKind = "not_called"
    /\ trArg = Unset
    /\ trValue = Unset
    /\ calls = 0
    /\ sent = <<>>
    /\ commands = 0
    /\ exc = "none"
    /\ terminal = "none"

InitFranco ==
    /\ mode = "franco"
    /\ pc = "call"
    /\ original \in FrancoInputs
    /\ translated = Unset
    /\ arabic = Unset
    /\ norm1 = Unset
    /\ norm2 = Unset
    /\ send = Unset
    /\ BotIdle

CallFranco ==
    /\ mode = "franco"
    /\ pc = "call"
    /\ arabic' = franco_to_arabic(original)
    /\ pc' = "returned"
    /\ UNCHANGED <<mode, original, translated, norm1, norm2, send, botVars>>

NextFranco == CallFranco

SpecFranco == InitFranco /\ [][NextFranco]_vars

----------------------------------------------------------------------------
(* Specification SpecNorm: the helpers applied to one pair of strings       *)

InitNorm ==
    /\ mode = "norm"
    /\ pc = "call"
    /\ \E p \in NormPairs : original = p[1] /\ translated = p[2]
    /\ arabic = Unset
    /\ norm1 = Unset
    /\ norm2 = Unset
    /\ send = Unset
    /\ BotIdle

\* send = should_send_translation(original, translated)
CallShouldSend ==
    /\ mode = "norm"
    /\ pc = "call"
    /\ send' = should_send_translation(original, translated)
    /\ pc' = "decided"
    /\ UNCHANGED <<mode, original, translated, arabic, norm1, norm2, botVars>>

\* norm1 = normalize_text(original)
CallNormalize ==
    /\ mode = "norm"
    /\ pc = "decided"
    /\ norm1' = normalize_text(original)
    /\ pc' = "normalized"
    /\ UNCHANGED <<mode, original, translated, arabic, norm2, send, botVars>>

\* norm2 = normalize_text(norm1)
CallNormalizeAgain ==
    /\ mode = "norm"
    /\ pc = "normalized"
    /\ norm2' = normalize_text(norm1)
    /\ pc' = "renormalized"
    /\ UNCHANGED <<mode, original, translated, arabic, norm1, send, botVars>>

NextNorm == CallShouldSend \/ CallNormalize \/ CallNormalizeAgain

SpecNorm == InitNorm /\ [][NextNorm]_vars

----------------------------------------------------------------------------
(* Reference definitions used by the properties                             *)

RECURSIVE TakeWord(_)
TakeWord(s) ==
    IF s # <<>> /\ ~InClass(Head(s)) THEN <<Head(s)>> \o TakeWord(Tail(s)) ELSE <<>>

\* The maximal runs of characters outside [\W_], in order.
RECURSIVE Words(_)
Words(s) ==
    IF s = <<>> THEN <<>>
    ELSE IF InClass(Head(s)) THEN Words(Tail(s))
    ELSE LET w == TakeWord(s)
         IN <<w>> \o Words(SubSeq(s, Len(w) + 1, Len(s)))

\* The words of s, each one lowercased.
LoweredWords(s) == [i \in 1..Len(Words(s)) |-> Lower(Words(s)[i])]

ComboSet == {COMBOS[i] : i \in 1..Len(COMBOS)}
KeySet == {FRANCO_MAP[i][1] : i \in 1..Len(FRANCO_MAP)}

\* A digraph of the fixed list starts at position i of s.
ComboAt(s, i) == i + 1 <= Len(s) /\ SubSeq(s, i, i + 1) \in ComboSet

ComboStarts(s) == {i \in 1..Len(s) : ComboAt(s, i)}

\* One left-to-right pass, longest match first.
RECURSIVE Scan(_)
Scan(s) ==
    IF s = <<>> THEN <<>>
    ELSE IF ComboAt(s, 1)
         THEN FrancoGet(SubSeq(s, 1, 2), SubSeq(s, 1, 2)) \o Scan(SubSeq(s, 3, Len(s)))
    ELSE IF <<Head(s)>> \in KeySet
         THEN FrancoGet(<<Head(s)>>, <<Head(s)>>) \o Scan(Tail(s))
    ELSE <<Head(s)>> \o Scan(Tail(s))

Reverse(q) == [i \in 1..Len(q) |-> q[Len(q) + 1 - i]]

----------------------------------------------------------------------------
(* Properties of the helpers (SpecNorm)                                     *)

\* C1: should_send_translation(original, translated) is TRUE exactly when
\* the two strings differ in their word content, that is in the sequence of
\* their lowercased maximal runs of word characters other than "_"; case and
\* the runs of non-word characters and underscores between, before and
\* after the words do not count.  The unit tests' pairs are among the inputs.
C1_GateIffWordContentDiffers ==
    (mode = "norm" /\ pc # "call") =>
        /\ send \in BOOLEAN
        /\ send = (LoweredWords(original) # LoweredWords(translated))
        /\ (original = <<104, 101, 121, 33, 33, 33>> /\ translated = <<104, 101, 121>>)
               => send = FALSE
        /\ (original = <<72, 101, 108, 108, 111>> /\ translated = <<104, 101, 108, 108, 111>>)
               => send = FALSE
        /\ (original = <<51, 111, 109, 114, 105>>
                /\ translated = <<109, 121, 32, 108, 105, 102, 101>>)
               => send = TRUE

\* "hey!!!" against "hey" has been decided, and the answer is FALSE.
C1_Witness ==
    /\ mode = "norm"
    /\ pc = "decided"
    /\ original = <<104, 101, 121, 33, 33, 33>>
    /\ translated = <<104, 101, 121>>
    /\ send = FALSE

\* C2: normalize_text is idempotent: normalizing the normalized string gives
\* the normalized string back.
C2_NormalizeIdempotent ==
    (mode = "norm" /\ pc = "renormalized") => norm2 = norm1

----------------------------------------------------------------------------
(* Properties of franco_to_arabic (SpecFranco)                              *)

\* C3: every occurrence of a digraph of the fixed list in the input shows up
\* in the output as the one character mapped from that digraph, at the
\* position the occurrence has once the digraphs before it have shrunk to
\* one character each; the output is shorter than the input by exactly the
\* number of digraph occurrences, so no digraph is rendered as two letters.
C3_DigraphPrecedence ==
    (mode = "franco" /\ pc = "returned") =>
        /\ Len(arabic) = Len(original) - Cardinality(ComboStarts(original))
        /\ \A i \in ComboStarts(original) :
              LET before == Cardinality({j \in ComboStarts(original) : j < i})
              IN <<arabic[i - before]>> = FrancoGet(SubSeq(original, i, i + 1), <<>>)

\* "ssh" has been converted: U+0633 for the lone s, U+0634 for the digraph.
C3_Witness ==
    /\ mode = "franco"
    /\ pc = "returned"
    /\ original = <<115, 115, 104>>
    /\ arabic = <<1587, 1588>>

\* C8: the value returned by franco_to_arabic is that of one left-to-right
\* longest-match-first pass (a digraph, else a single-character key, else
\* the character copied unchanged), and the same value results when the
\* table's entries are applied in the opposite order.
C8_EqualsSingleScan ==
    (mode = "franco" /\ pc = "returned") =>
        /\ arabic = Scan(original)
        /\ arabic = FrancoApply(original, COMBOS, Reverse(FRANCO_MAP))

\* "Shs" has been converted: S copied, h and s replaced one by one.
C8_Witness ==
    /\ mode = "franco"
    /\ pc = "returned"
    /\ original = <<83, 104, 115>>
    /\ arabic = <<83, 1607, 1587>>

----------------------------------------------------------------------------
(* The handlers of the two bots (specification Spec)                        *)

MaxContentLen == 2

\* s S h !
PipeAlphabet == {115, 83, 104, 33}

\* The texts of the messages and of the !translate arguments.
Contents == StringsUpTo(PipeAlphabet, MaxContentLen)

Variants == {"bot", "franco_arabic_bot"}
Handlers == {"on_message", "translate_command"}

\* What one call translator.translate(arg) of the external library can do:
\* raise, or return None, or return a string (the empty string, an echo of
\* its argument, any other text).
TranslatorBehaviours(arg) ==
    {[kind |-> "raised", value |-> Unset]}
        \cup {[kind |-> "returned", value |-> v] :
                 v \in {NoneVal} \cup Contents \cup {arg}}

\* franco_to_arabic(text) raises: text.replace of a value that is no str.
\* Both call sites pass a str (message.content, the command's text), so
\* this never holds of a running handler.
FrancoRaises(text) == text = NoneVal

\* The handler's should_send_translation call compares the transliterated text.
GateOnTransliterated(content, arabicText, result) ==
    IF arabicText = Unset THEN <<content, result>> ELSE <<arabicText, result>>

\* The arguments of the handler's should_send_translation call:
\* (message.content, translation), (text, translation).
GateArgs(content, arabicText, result) == <<content, result>>

Init ==
    /\ mode = "bot"
    /\ pc = "start"
    /\ variant \in Variants
    /\ handler \in Handlers
    /\ authorBot \in (IF handler = "on_message" THEN BOOLEAN ELSE {FALSE})
    /\ original \in Contents
    /\ translated = Unset
    /\ arabic = Unset
    /\ norm1 = Unset
    /\ norm2 = Unset
    /\ send = Unset
    /\ trKind = "not_called"
    /\ trArg = Unset
    /\ trValue = Unset
    /\ calls = 0
    /\ sent = <<>>
    /\ commands = 0
    /\ exc = "none"
    /\ terminal = "none"

\* on_message: if message.author.bot: return
OnMessageIgnoreBot ==
    /\ mode = "bot"
    /\ pc = "start"
    /\ handler = "on_message"
    /\ authorBot
    /\ pc' = "done"
    /\ UNCHANGED <<mode, original, translated, arabic, norm1, norm2, send, botVars>>

\* translate_text of bot.py: franco_to_arabic, then the translator, both
\* inside one try; any exception returns text.
TranslateTextBot ==
    /\ variant = "bot"
    /\ IF FrancoRaises(original)
       THEN /\ translated' = original
            /\ UNCHANGED <<arabic, trKind, trArg, trValue, calls>>
       ELSE LET a == franco_to_arabic(original)
            IN /\ arabic' = a
               /\ trArg' = a
               /\ calls' = calls + 1
               /\ \E r \in TranslatorBehaviours(a) :
                     /\ trKind' = r.kind
                     /\ trValue' = r.value
                     /\ translated' = IF r.kind = "raised" THEN original ELSE r.value

\* translate_text of franco_arabic_bot.py: the translator on the raw text;
\* any exception returns None.
TranslateTextFranco ==
    /\ variant = "franco_arabic_bot"
    /\ trArg' = original
    /\ calls' = calls + 1
    /\ \E r \in TranslatorBehaviours(original) :
          /\ trKind' = r.kind
          /\ trValue' = r.value
          /\ translated' = IF r.kind = "raised" THEN NoneVal ELSE r.value
    /\ UNCHANGED arabic

\* translation = await translate_text(...), in on_message (past the author
\* check) and in translate_command.
TranslateText ==
    /\ mode = "bot"
    /\ pc = "start"
    /\ handler = "on_message" => ~authorBot
    /\ TranslateTextBot \/ TranslateTextFranco
    /\ pc' = "translated"
    /\ UNCHANGED <<mode, original, norm1, norm2, send, variant, handler,
                   authorBot, sent, commands, exc, terminal>>

\* franco_arabic_bot.py: if translated is None: ...
GateNone ==
    /\ variant = "franco_arabic_bot"
    /\ translated = NoneVal
    /\ terminal' = "SUPPRESSED_ON_ERROR"
    /\ pc' = IF handler = "on_message" THEN "commands" ELSE "sending"
    /\ UNCHANGED <<send, exc>>

\* bot.py: should_send_translation(.., None): normalize_text(None) raises
\* TypeError (re.sub of a value that is no str), which leaves the handler.
GateTypeError ==
    /\ variant = "bot"
    /\ translated = NoneVal
    /\ exc' = "TypeError"
    /\ pc' = "done"
    /\ UNCHANGED <<send, terminal>>

\* if should_send_translation(message.content, translation): ... (else: ...)
GateDecide ==
    /\ translated # NoneVal
    /\ LET args == GateArgs(original, arabic, translated)
           d == should_send_translation(args[1], args[2])
       IN /\ send' = d
          /\ terminal' = IF d THEN "EMIT" ELSE "SUPPRESS"
          /\ pc' = IF handler = "on_message" /\ ~d THEN "commands" ELSE "sending"
    /\ UNCHANGED exc

Gate ==
    /\ mode = "bot"
    /\ pc = "translated"
    /\ GateNone \/ GateTypeError \/ GateDecide
    /\ UNCHANGED <<mode, original, translated, arabic, norm1, norm2, variant,
                   handler, authorBot, trKind, trArg, trValue, calls, sent,
                   commands>>

\* The message the handler is about to send.
Outgoing ==
    IF translated = NoneVal THEN [kind |-> "could_not_translate", payload |-> <<>>]
    ELSE IF send THEN [kind |-> "translation", payload |-> translated]
    ELSE [kind |-> "already_english", payload |-> <<>>]

\* await message.channel.send(..) / await ctx.send(..): the call succeeds or
\* raises discord.HTTPException, which on_message catches and logs and
\* translate_command lets through.
Send ==
    /\ mode = "bot"
    /\ pc = "sending"
    /\ \E ok \in BOOLEAN :
          /\ sent' = Append(sent, [kind |-> Outgoing.kind,
                                   payload |-> Outgoing.payload, ok |-> ok])
          /\ IF handler = "on_message"
             THEN pc' = "commands" /\ UNCHANGED exc
             ELSE pc' = "done" /\ exc' = IF ok THEN "none" ELSE "HTTPException"
    /\ UNCHANGED <<mode, original, translated, arabic, norm1, norm2, send,
                   variant, handler, authorBot, trKind, trArg, trValue, calls,
                   commands, terminal>>

\* await bot.process_commands(message)
ProcessCommands ==
    /\ mode = "bot"
    /\ pc = "commands"
    /\ commands' = commands + 1
    /\ pc' = "done"
    /\ UNCHANGED <<mode, original, translated, arabic, norm1, norm2, send,
                   variant, handler, authorBot, trKind, trArg, trValue, calls,
                   sent, exc, terminal>>

Next == OnMessageIgnoreBot \/ TranslateText \/ Gate \/ Send \/ ProcessCommands

Spec == Init /\ [][Next]_vars

----------------------------------------------------------------------------
(* Properties of the handlers                                               *)

\* The send calls that carry a translation.
TranslationMessages ==
    {i \in 1..Len(sent) : sent[i].kind = "translation"}

\* A text unit: a !translate invocation, or a message of a non-bot author.
IsTextUnit == handler = "translate_command" \/ ~authorBot

\* C4: when translator.translate raised, the unit ends in
\* SUPPRESSED-ON-ERROR: no translation message goes out, and translate_text
\* hands the handler a value that is no str (None, the "unavailable"
\* signal), which no successful translation can be; in both bots.
C4_RaiseSurfacesUnavailable ==
    (mode = "bot" /\ pc = "done" /\ trKind = "raised") =>
        /\ TranslationMessages = {}
        /\ translated = NoneVal
        /\ terminal = "SUPPRESSED_ON_ERROR"

\* C5: when translator.translate returned None or the empty string, the
\* unit is handled as a failed translation: it ends in SUPPRESSED-ON-ERROR,
\* no translation message goes out and no exception leaves the handler
\* (the handler's own send calls having succeeded).
C5_EmptyPayloadIsFailure ==
    (/\ mode = "bot"
     /\ pc = "done"
     /\ trKind = "returned"
     /\ trValue \in {NoneVal, <<>>}
     /\ \A i \in 1..Len(sent) : sent[i].ok) =>
        /\ TranslationMessages = {}
        /\ terminal = "SUPPRESSED_ON_ERROR"
        /\ exc = "none"

\* C7: a finished text unit has called the translator at most once and has
\* reached one of the terminal states EMIT, SUPPRESS, SUPPRESSED-ON-ERROR.
C7_OneCallOneTerminal ==
    (mode = "bot" /\ pc = "done" /\ IsTextUnit) =>
        /\ calls <= 1
        /\ terminal \in {"EMIT", "SUPPRESS", "SUPPRESSED_ON_ERROR"}

\* C9: the gate is evaluated only once the translator has been called, and
\* once the handler is past its send, a translation message has been handed
\* to channel.send / ctx.send exactly when the translator returned a string
\* whose word content differs from that of the raw input (not of the
\* transliterated text); there is one such message at most and its payload
\* is the string the translator returned.
C9_GateOnRawInputAfterTranslation ==
    mode = "bot" =>
        /\ (terminal \in {"EMIT", "SUPPRESS"} \/ sent # <<>>) =>
              (calls = 1 /\ pc \notin {"start", "translated"})
        /\ pc \in {"start", "translated"} => sent = <<>>
        /\ pc \in {"commands", "done"} =>
              /\ Cardinality(TranslationMessages) <= 1
              /\ (TranslationMessages # {}) <=>
                    /\ trKind = "returned"
                    /\ trValue # NoneVal
                    /\ LoweredWords(original) # LoweredWords(trValue)
              /\ \A i \in TranslationMessages : sent[i].payload = trValue

\* bot.py got "s", the translator echoed the transliterated U+0633, and that
\* echo went out as the translation.
C9_Witness ==
    /\ mode = "bot"
    /\ pc = "done"
    /\ variant = "bot"
    /\ handler = "on_message"
    /\ original = <<115>>
    /\ arabic = <<1587>>
    /\ trValue = <<1587>>
    /\ Len(sent) = 1
    /\ sent[1].kind = "translation"
    /\ sent[1].payload = <<1587>>

\* C10: when on_message has returned, a bot author's message has caused no
\* translator call, no send and no command processing, and any other
\* message has had bot.process_commands called exactly once.
C10_ProcessCommandsOnce ==
    (mode = "bot" /\ handler = "on_message" /\ pc = "done") =>
        IF authorBot
        THEN calls = 0 /\ sent = <<>> /\ commands = 0
        ELSE commands = 1

====
